---- MODULE Spec2Model ----
(***************************************************************************)
(* AppLoader_NCCH (src/core/loader/ncch.cpp): the loader of one NCCH title. *)
(*                                                                         *)
(* The loader owns two containers, base_ncch and update_ncch, and a        *)
(* pointer overlay_ncch to one of them.  Its collaborators (the            *)
(* containers, the kernel, telemetry, the room member, the CFG module, the *)
(* archive manager, fs:USER) are modelled by what the loader calls on them *)
(* and by what they answer; their answers are the static contents of the   *)
(* title's files and of the settings, held in env.                         *)
(*                                                                         *)
(* Representation of machine integers.  TLC's integers are 32-bit signed,  *)
(* so a u32 byte count is kept as [pg, off] = pg * 4096 + off with         *)
(* off < 4096 and pg < 2^20; a size_t byte count is the same record with   *)
(* pg unbounded.  A 32-bit mask is the set of its set bit positions.  A    *)
(* u64 program id is <<high word, low word>>.                              *)
(***************************************************************************)
EXTENDS Integers, Sequences, FiniteSets, TLC

VARIABLES
    is_loaded,          \* AppLoader::is_loaded
    overlay_ncch,       \* AppLoader_NCCH::overlay_ncch: "base_ncch" or "update_ncch"
    ncch_state,         \* per container: "unopened", "opened" or "loaded"
    process,            \* the caller's std::shared_ptr<Kernel::Process>& (NoProcess = null)
    totals,             \* what the collaborators have received so far, as counters
    preferred_regions,  \* the CFG module's preferred region codes (NotSet = never set)
    calls,              \* the collaborator calls of the last operation, in order
    lastOp,             \* the last operation invoked on the loader
    result,             \* the ResultStatus it returned
    out,                \* what it wrote to its out-parameter or returned beside the status
    load_called,        \* history: Load has been invoked on this instance
    env                 \* the title's files and the settings (never written)

vars == <<is_loaded, overlay_ncch, ncch_state, process, totals, preferred_regions,
          calls, lastOp, result, out, load_called, env>>

----------------------------------------------------------------------------
(* Program constants *)

\* Memory::CITRA_PAGE_SIZE, the unit of num_max_pages and the 0xFFF + 1 of the bss rounding
CITRA_PAGE_SIZE == 4096

\* 2^32 / CITRA_PAGE_SIZE: a u32 byte count wraps at this many pages
PagesPerU32 == 1048576

\* sizeof the trailer IsGbaVirtualConsole looks at (0x10)
GbaVcHeaderSize == 16

\* REGION_COUNT of ParseRegionLockoutInfo
REGION_COUNT == 7

\* UPDATE_MASK = 0x0000000e00000000: its high word
UPDATE_MASK_HI == 14

\* sizeof(SMDH) (0x36C0, core/loader/smdh.h), the fixed icon layout
SizeofSMDH == 14016

\* the number of UTF-16 code units of one SMDH short title (0x40, core/loader/smdh.h)
ShortTitleLen == 64

\* ExHeader_ARM11_KernelCaps::NUM_DESCRIPTORS (core/file_sys/ncch_container.h)
NUM_DESCRIPTORS == 28

\* the length of the fixed process-name buffer of the exheader
ProcessNameLen == 8

----------------------------------------------------------------------------
(* Bounds of the model *)

\* LoadExec may be invoked again on a loaded loader; the number of code sets (and so of
\* processes) the kernel is asked for is capped
MaxCodeSets == 2

\* the longest content put in front of a 16-byte trailer of the executable section
MaxPrefixLen == 2

----------------------------------------------------------------------------
(* Machine arithmetic *)

Bytes(pg, off) == [pg |-> pg, off |-> off]

\* the value of a byte count that fits TLC's integers
ToInt(v) == v.pg * CITRA_PAGE_SIZE + v.off

\* u32 * CITRA_PAGE_SIZE, in u32
MulPageSize(n) == Bytes(n % PagesPerU32, 0)

\* u32 + u32, in u32
AddU32(a, b) ==
    LET s == a.off + b.off
    IN  Bytes((a.pg + b.pg + (s \div CITRA_PAGE_SIZE)) % PagesPerU32, s % CITRA_PAGE_SIZE)

\* size_t + size_t (or size_t + u32), in a 64-bit size_t
AddSize(a, b) ==
    LET s == a.off + b.off
    IN  Bytes(a.pg + b.pg + (s \div CITRA_PAGE_SIZE), s % CITRA_PAGE_SIZE)

\* a <= b for byte counts
LeqBytes(a, b) == a.pg < b.pg \/ (a.pg = b.pg /\ a.off <= b.off)
LtBytes(a, b) == a.pg < b.pg \/ (a.pg = b.pg /\ a.off < b.off)

\* (bss_size + 0xFFF) & ~0xFFF, in u32
AlignBss(bss_size) ==
    LET sum == AddU32(bss_size, Bytes(0, CITRA_PAGE_SIZE - 1))
    IN  Bytes(sum.pg, 0)

----------------------------------------------------------------------------
(* Values *)

\* a null std::shared_ptr<Kernel::Process>
NoProcess == [status |-> "null"]
\* the CFG module before any SetPreferredRegionCodes
NotSet == [set |-> FALSE, codes |-> <<>>]
\* std::optional: std::nullopt and a value
None == [has_value |-> FALSE, value |-> 0]
Some(v) == [has_value |-> TRUE, value |-> v]
Base == "base_ncch"
Update == "update_ncch"
Containers == {Base, Update}

\* Loader::ResultStatus
Success == "Success"
Error == "Error"
ErrorInvalidFormat == "ErrorInvalidFormat"
ErrorNotUsed == "ErrorNotUsed"
ErrorAlreadyLoaded == "ErrorAlreadyLoaded"
ErrorNotLoaded == "ErrorNotLoaded"
ErrorGbaTitle == "ErrorGbaTitle"
ErrorEncrypted == "ErrorEncrypted"
ErrorMemoryAllocationFailed == "ErrorMemoryAllocationFailed"

\* Settings::REGION_VALUE_AUTO_SELECT
REGION_VALUE_AUTO_SELECT == "auto"

----------------------------------------------------------------------------
(* Pure helpers *)

RECURSIVE Repeat(_, _)
Repeat(x, n) == IF n <= 0 THEN <<>> ELSE <<x>> \o Repeat(x, n - 1)

\* std::find(first, last, 0) - first: the number of elements before the first zero
RECURSIVE FindZero(_, _)
FindZero(buf, i) ==
    IF i > Len(buf) THEN Len(buf)
    ELSE IF buf[i] = 0 THEN i - 1
    ELSE FindZero(buf, i + 1)

\* Common::StringFromFixedZeroTerminatedBuffer(buffer, max_len)
StringFromFixedZeroTerminatedBuffer(buf, max_len) ==
    LET n == IF Len(buf) < max_len THEN Len(buf) ELSE max_len
        head == SubSeq(buf, 1, n)
    IN  SubSeq(head, 1, FindZero(head, 1))

\* Loader::MakeMagic(a, b, c, d) = a | b << 8 | c << 16 | d << 24, as the four bytes
\* a little-endian host stores it in
MakeMagic(a, b, c, d) == <<a, b, c, d>>

\* the four bytes a little-endian host stores a small u32 in
U32Bytes(n) == <<n % 256, (n \div 256) % 256, (n \div 65536) % 256, n \div 16777216>>

\* reinterpret_cast<const u32*>(p)[0] at byte offset at (0-based) of a buffer
ReadU32(buf, at) == SubSeq(buf, at + 1, at + 4)

\* fmt::format("{:016X}", id): sixteen upper-case hex digits, most significant first
HexChars == <<"0", "1", "2", "3", "4", "5", "6", "7", "8", "9", "A", "B", "C", "D", "E", "F">>
HexDigit(d) == HexChars[d + 1]
RECURSIVE HexWord(_, _)
HexWord(n, digits) ==
    IF digits = 0 THEN <<>> ELSE Append(HexWord(n \div 16, digits - 1), HexDigit(n % 16))
FormatProgramId(id) == HexWord(id[1], 8) \o HexWord(id[2], 8)

\* program_id | UPDATE_MASK: the mask sets bits 1..3 of the high word
OrUpdateMask(id) ==
    LET hi == id[1]
        low4 == hi % 16
    IN  <<(hi - low4) + UPDATE_MASK_HI + (low4 % 2), id[2]>>

\* Common::UTF16ToUTF8 on code units of the basic plane (no surrogates), as bytes
RECURSIVE UTF16ToUTF8(_)
UTF16ToUTF8(units) ==
    IF units = <<>> THEN <<>>
    ELSE LET u == Head(units)
             enc == IF u < 128 THEN <<u>>
                    ELSE IF u < 2048 THEN <<192 + (u \div 64), 128 + (u % 64)>>
                    ELSE <<224 + (u \div 4096), 128 + ((u \div 64) % 64), 128 + (u % 64)>>
         IN  enc \o UTF16ToUTF8(Tail(units))

\* region_lockout >>= 1 on a mask kept as the set of its set bits
ShiftRight1(mask) == {b - 1 : b \in mask \ {0}}

----------------------------------------------------------------------------
(* The containers (FileSys::NCCHContainer), as the loader sees them *)

\* NCCHContainer::Load: a loaded container answers Success again; a container with
\* no file answers Error; otherwise the file decides
ContainerLoadResult(st, c, e) ==
    IF st[c] = "loaded" THEN Success
    ELSE IF st[c] = "unopened" THEN Error
    ELSE e.ncch[c].load_res

ContainerAfterLoad(st, c, e) ==
    IF ContainerLoadResult(st, c, e) = Success THEN [st EXCEPT ![c] = "loaded"] ELSE st

\* NCCHContainer::OpenFile: gives the container a file; a loaded container stays loaded
ContainerAfterOpen(st, c) ==
    IF st[c] = "unopened" THEN [st EXCEPT ![c] = "opened"] ELSE st

\* a read of the container (LoadSectionExeFS, ReadRomFS, ReadProgramId, DumpRomFS...):
\* the container loads itself first and answers its load error if that fails
ContainerRead(st, c, e, answer) ==
    IF ContainerLoadResult(st, c, e) # Success THEN ContainerLoadResult(st, c, e)
    ELSE answer

----------------------------------------------------------------------------
(* AppLoader_NCCH::IsGbaVirtualConsole *)

IsGbaVirtualConsoleLonger(code) ==
    /\ Len(code) > GbaVcHeaderSize
    /\ ReadU32(code, Len(code) - GbaVcHeaderSize) = MakeMagic(46, 67, 65, 65)
    /\ ReadU32(code, Len(code) - GbaVcHeaderSize + 4) = U32Bytes(1)

IsGbaVirtualConsole(code) ==
    /\ Len(code) >= GbaVcHeaderSize
    /\ ReadU32(code, Len(code) - GbaVcHeaderSize) = MakeMagic(46, 67, 65, 65)
    /\ ReadU32(code, Len(code) - GbaVcHeaderSize + 4) = U32Bytes(1)

----------------------------------------------------------------------------
(* AppLoader_NCCH::LoadExec *)

\* u32 bss_page_size = (codeset_info.bss_size + 0xFFF) & ~0xFFF
BssPageSize(exheader) == AlignBss(exheader.codeset_info.bss_size)

\* code.resize(code.size() + bss_page_size, 0): the vector as its old bytes followed
\* by pad bytes of value fill
ResizeCode(code, bss_page_size) == [bytes |-> code, pad |-> bss_page_size, fill |-> 0]

\* std::vector::size() of the resized vector
BufferSize(buffer) == AddSize(Bytes(0, Len(buffer.bytes)), buffer.pad)

\* the three segments of the CodeSet (offset: std::size_t, addr: VAddr, size: u32)
CodeSegment(exheader) ==
    [offset |-> Bytes(0, 0),
     addr   |-> exheader.codeset_info.text.address,
     size   |-> MulPageSize(exheader.codeset_info.text.num_max_pages)]

RODataSegmentAtZero(exheader) ==
    [offset |-> Bytes(0, 0),
     addr   |-> exheader.codeset_info.ro.address,
     size   |-> MulPageSize(exheader.codeset_info.ro.num_max_pages)]

RODataSegment(exheader) ==
    [offset |-> AddSize(CodeSegment(exheader).offset, CodeSegment(exheader).size),
     addr   |-> exheader.codeset_info.ro.address,
     size   |-> MulPageSize(exheader.codeset_info.ro.num_max_pages)]

DataSegment(exheader) ==
    [offset |-> AddSize(RODataSegment(exheader).offset, RODataSegment(exheader).size),
     addr   |-> exheader.codeset_info.data.address,
     size   |-> AddU32(MulPageSize(exheader.codeset_info.data.num_max_pages),
                       BssPageSize(exheader))]

\* patch_result != Success && patch_result != ErrorNotUsed
PatchAbortsNever(patch_result) == FALSE
PatchAborts(patch_result) == patch_result # Success /\ patch_result # ErrorNotUsed

\* the CodeSet handed to CreateProcess
MakeCodeSet(exheader, code, program_id, patch_result) ==
    [name          |-> StringFromFixedZeroTerminatedBuffer(exheader.codeset_info.name,
                                                           ProcessNameLen),
     program_id    |-> program_id,
     CodeSegment   |-> CodeSegment(exheader),
     RODataSegment |-> RODataSegment(exheader),
     DataSegment   |-> DataSegment(exheader),
     entrypoint    |-> CodeSegment(exheader).addr,
     memory        |-> [buffer  |-> ResizeCode(code, BssPageSize(exheader)),
                        patched |-> patch_result = Success]]

\* if (!is_loaded) return ResultStatus::ErrorNotLoaded
ExecRejectedNever(loaded) == FALSE
ExecRejected(loaded) == ~loaded

\* the kernel and fs:USER calls from CreateProcess to Run, in the order LoadExec makes
\* them, with the store to process->ideal_processor among them
ProcessSetupCallsRunFirst(codeset, exheader, process_id, filepath) ==
    << <<"CreateProcess", codeset>>,
       <<"Run", exheader.arm11_system_local_caps.priority, exheader.codeset_info.stack_size>>,
       <<"GetForCategory", exheader.arm11_system_local_caps.resource_limit_category>>,
       <<"ideal_processor", exheader.arm11_system_local_caps.ideal_processor>>,
       <<"ParseKernelCaps",
         [i \in 1..NUM_DESCRIPTORS |-> exheader.arm11_kernel_caps.descriptors[i]],
         NUM_DESCRIPTORS>>,
       <<"Register", process_id, codeset.program_id, filepath>> >>

ProcessSetupCalls(codeset, exheader, process_id, filepath) ==
    << <<"CreateProcess", codeset>>,
       <<"GetForCategory", exheader.arm11_system_local_caps.resource_limit_category>>,
       <<"ideal_processor", exheader.arm11_system_local_caps.ideal_processor>>,
       <<"ParseKernelCaps",
         [i \in 1..NUM_DESCRIPTORS |-> exheader.arm11_kernel_caps.descriptors[i]],
         NUM_DESCRIPTORS>>,
       <<"Register", process_id, codeset.program_id, filepath>>,
       <<"Run", exheader.arm11_system_local_caps.priority, exheader.codeset_info.stack_size>> >>

\* what LoadExec did: its result, its collaborator calls, and the process it made
LoadExecOutcome(loaded, ov, e, next_process_id, filepath) ==
    LET c == e.ncch[ov]
        exheader == c.exheader
        code == IF c.code_res = Success THEN c.code ELSE <<>>
        readCode == <<"LoadSectionExeFS", ov, ".code", c.code_res>>
        readId == <<"ReadProgramId", Base, e.program_id_res>>
        nothing == [result |-> Error, calls |-> <<>>, created |-> FALSE,
                    process |-> NoProcess, codesets |-> 0]
        buffer == ResizeCode(code, BssPageSize(exheader))
        codeset == MakeCodeSet(exheader, code, e.program_id, c.patch_res)
        createCodeSet == <<"CreateCodeSet", codeset.name, e.program_id>>
        patch == <<"ApplyCodePatch", ov, buffer, c.patch_res>>
        category == exheader.arm11_system_local_caps.resource_limit_category
        kernel_caps == [i \in 1..NUM_DESCRIPTORS |-> exheader.arm11_kernel_caps.descriptors[i]]
        priority == exheader.arm11_system_local_caps.priority
        stack_size == exheader.codeset_info.stack_size
        made == [status          |-> "running",
                 process_id      |-> next_process_id,
                 codeset         |-> codeset,
                 resource_limit  |-> <<"ResourceLimit", category>>,
                 ideal_processor |-> exheader.arm11_system_local_caps.ideal_processor,
                 kernel_caps     |-> kernel_caps,
                 priority        |-> priority,
                 stack_size      |-> stack_size]
    IN  IF ExecRejected(loaded) THEN [nothing EXCEPT !.result = ErrorNotLoaded]
        ELSE IF c.code_res # Success THEN [nothing EXCEPT !.calls = <<readCode>>]
        ELSE IF e.program_id_res # Success THEN [nothing EXCEPT !.calls = <<readCode, readId>>]
        ELSE IF IsGbaVirtualConsole(code)
             THEN [nothing EXCEPT !.result = ErrorGbaTitle, !.calls = <<readCode, readId>>]
        ELSE IF PatchAborts(c.patch_res)
             THEN [nothing EXCEPT !.result = c.patch_res, !.codesets = 1,
                                  !.calls = <<readCode, readId, createCodeSet, patch>>]
        ELSE [result   |-> Success,
              created  |-> TRUE,
              process  |-> made,
              codesets |-> 1,
              calls    |-> <<readCode, readId, createCodeSet, patch>>
                             \o ProcessSetupCalls(codeset, exheader, next_process_id,
                                                  filepath)]

----------------------------------------------------------------------------
(* AppLoader_NCCH::ParseRegionLockoutInfo *)

\* for (region = 0; region < REGION_COUNT; ++region) { if (lockout & 1) push_back; lockout >>= 1; }
RECURSIVE RegionLoop(_, _, _, _)
RegionLoop(region, count, region_lockout, regions) ==
    IF region >= count THEN regions
    ELSE RegionLoop(region + 1, count, ShiftRight1(region_lockout),
                    IF 0 \in region_lockout THEN Append(regions, region) ELSE regions)

RegionsFromLockoutShort(region_lockout) == RegionLoop(0, REGION_COUNT - 1, region_lockout, <<>>)
RegionsFromLockout(region_lockout) == RegionLoop(0, REGION_COUNT, region_lockout, <<>>)

\* Core::GetSystemTitleRegion(program_id): the static system-title table
GetSystemTitleRegion(e, program_id) ==
    IF \E t \in e.system_titles : t[1] = program_id
    THEN Some((CHOOSE t \in e.system_titles : t[1] = program_id)[2])
    ELSE None

\* ReadIcon(smdh_buffer) == Success && smdh_buffer.size() >= sizeof(SMDH)
IconUsable(icon_res, icon) == icon_res = Success /\ icon.size >= SizeofSMDH

\* region_value != REGION_VALUE_AUTO_SELECT: return
RegionResolverRunsAlways(region_value) == TRUE
RegionResolverRuns(region_value) == region_value = REGION_VALUE_AUTO_SELECT

\* the calls ParseRegionLockoutInfo makes (the container is loaded when it runs)
ParseRegionLockoutInfoCalls(ov, e, program_id) ==
    LET c == e.ncch[ov]
        readIcon == <<"LoadSectionExeFS", ov, "icon", c.icon_res>>
        region == GetSystemTitleRegion(e, program_id)
    IN  IF ~RegionResolverRuns(e.region_value) THEN <<>>
        ELSE IF IconUsable(c.icon_res, c.icon)
             THEN <<readIcon,
                    <<"SetPreferredRegionCodes", RegionsFromLockout(c.icon.region_lockout)>> >>
        ELSE IF region.has_value
             THEN <<readIcon, <<"GetSystemTitleRegion", program_id>>,
                    <<"SetPreferredRegionCodes", <<region.value>> >> >>
        ELSE <<readIcon, <<"GetSystemTitleRegion", program_id>> >>

----------------------------------------------------------------------------
(* Reading the log of calls *)

\* the calls of a log made to function fn, in order
RECURSIVE CallsTo(_, _)
CallsTo(log, fn) ==
    IF log = <<>> THEN <<>>
    ELSE IF Head(log)[1] = fn THEN <<Head(log)>> \o CallsTo(Tail(log), fn)
    ELSE CallsTo(Tail(log), fn)

Count(log, fn) == Len(CallsTo(log, fn))

\* the position of the first call to fn in a log (0 = none)
RECURSIVE FirstAt(_, _, _)
FirstAt(log, fn, i) ==
    IF i > Len(log) THEN 0
    ELSE IF log[i][1] = fn THEN i
    ELSE FirstAt(log, fn, i + 1)

\* the CFG module after the calls of a log
CfgAfter(current, log) ==
    IF Count(log, "SetPreferredRegionCodes") = 0 THEN current
    ELSE [set |-> TRUE,
          codes |-> CallsTo(log, "SetPreferredRegionCodes")
                        [Count(log, "SetPreferredRegionCodes")][2]]

----------------------------------------------------------------------------
(* AppLoader_NCCH::ReadTitle *)

\* Loader::IsValidSMDH: large enough for the layout and carrying the SMDH magic
IsValidSMDH(data) == data.size >= SizeofSMDH /\ data.magic_ok

\* an empty std::vector<u8>
EmptyIcon == [size |-> 0, magic_ok |-> FALSE, region_lockout |-> {}, short_title |-> <<>>]

\* std::find(short_title.begin(), short_title.end(), u'\0') and the conversion
TitleOfWholeBuffer(short_title) == UTF16ToUTF8(short_title)
TitleOf(short_title) == UTF16ToUTF8(SubSeq(short_title, 1, FindZero(short_title, 1)))

\* what ReadTitle does on the overlay container: result, title, calls
ReadTitleOutcome(st, ov, e) ==
    LET c == e.ncch[ov]
        icon_res == ContainerRead(st, ov, e, c.icon_res)
        data == IF icon_res = Success THEN c.icon ELSE EmptyIcon
        readIcon == <<"LoadSectionExeFS", ov, "icon", icon_res>>
    IN  IF ~IsValidSMDH(data)
        THEN [result |-> ErrorInvalidFormat, title |-> <<>>, calls |-> <<readIcon>>]
        ELSE [result |-> Success, title |-> TitleOf(data.short_title), calls |-> <<readIcon>>]

----------------------------------------------------------------------------
(* AppLoader_NCCH::Load *)

\* the path the loader was constructed with
FilePath == "title.cxi"

\* Service::AM::GetTitleContentPath(MediaType::SDMC, id)
GetTitleContentPath(id) == <<"SDMC", id>>

\* if (is_loaded) return ResultStatus::ErrorAlreadyLoaded
LoadRejectedNever(loaded) == FALSE
LoadRejected(loaded) == loaded

\* result = update_ncch.Load(); if (result == Success) overlay_ncch = &update_ncch
SelectOverlayAlwaysUpdate(current, update_result) == Update
SelectOverlay(current, update_result) ==
    IF update_result = Success THEN Update ELSE current

\* result = base_ncch.Load(); if (result != ResultStatus::Success) return result
BaseLoadAbortsNever(base_result) == FALSE
BaseLoadAborts(base_result) == base_result # Success

\* result = LoadExec(process); if (ResultStatus::Success != result) return result
BuildAbortsNever(exec_result) == FALSE
BuildAborts(exec_result) == exec_result # Success

\* if (auto room_member = Network::GetRoomMember().lock())
Broadcasts(room_member) == room_member

\* ReadTitle(game_info.name): the status ReadTitle returns is not looked at
TitleReadAbortsOnError(title_result) == title_result # Success
TitleReadAborts(title_result) == FALSE

\* the counters after the calls of one operation
TotalsAfter(t, log) ==
    [telemetry |-> t.telemetry + Count(log, "AddField"),
     game_info |-> t.game_info + Count(log, "SendGameInfo"),
     codesets  |-> t.codesets + Count(log, "CreateCodeSet"),
     patches   |-> t.patches + Count(log, "ApplyCodePatch"),
     processes |-> t.processes + Count(log, "CreateProcess"),
     runs      |-> t.runs + Count(log, "Run"),
     fs_user   |-> t.fs_user + Count(log, "Register"),
     self_ncch |-> t.self_ncch + Count(log, "RegisterSelfNCCH"),
     cfg_set   |-> t.cfg_set + Count(log, "SetPreferredRegionCodes")]

\* what Load does from a state; garbage is the value an uninitialised
\* ncch_program_id holds when ReadProgramId fails and leaves it unwritten
LoadOutcome(loaded, ov, st, e, next_process_id, garbage) ==
    LET base_res == ContainerLoadResult(st, Base, e)
        st1 == ContainerAfterLoad(st, Base, e)
        loadBase == <<"Load", Base, st[Base], base_res>>
        id_res == ContainerRead(st1, Base, e, e.program_id_res)
        ncch_program_id == IF id_res = Success THEN e.program_id ELSE garbage
        readId == <<"ReadProgramId", Base, id_res>>
        program_id == FormatProgramId(ncch_program_id)
        st2 == ContainerAfterOpen(st1, Update)
        openUpdate == <<"OpenFile", Update, GetTitleContentPath(OrUpdateMask(ncch_program_id))>>
        update_res == ContainerLoadResult(st2, Update, e)
        st3 == ContainerAfterLoad(st2, Update, e)
        loadUpdate == <<"Load", Update, st2[Update], update_res>>
        ov1 == SelectOverlay(ov, update_res)
        addField == <<"AddField", "ProgramId", program_id>>
        title == ReadTitleOutcome(st3, ov1, e)
        broadcast == IF Broadcasts(e.room_member)
                     THEN title.calls \o << <<"SendGameInfo", title.title, ncch_program_id>> >>
                     ELSE <<>>
        head == <<loadBase, readId, openUpdate, loadUpdate, addField>> \o broadcast
        exec == LoadExecOutcome(TRUE, ov1, e, next_process_id, FilePath)
        tail == << <<"RegisterSelfNCCH">> >>
                    \o ParseRegionLockoutInfoCalls(ov1, e, ncch_program_id)
        same == [result |-> ErrorAlreadyLoaded, calls |-> <<>>, is_loaded |-> loaded,
                 overlay_ncch |-> ov, ncch_state |-> st, created |-> FALSE,
                 process |-> NoProcess]
    IN  IF LoadRejected(loaded) THEN same
        ELSE IF BaseLoadAborts(base_res)
             THEN [same EXCEPT !.result = base_res, !.calls = <<loadBase>>, !.ncch_state = st1]
        ELSE IF Broadcasts(e.room_member) /\ TitleReadAborts(title.result)
             THEN [same EXCEPT !.result = title.result, !.calls = head,
                               !.overlay_ncch = ov1, !.ncch_state = st3]
        ELSE IF BuildAborts(exec.result)
             THEN [result |-> exec.result, calls |-> head \o exec.calls, is_loaded |-> TRUE,
                   overlay_ncch |-> ov1, ncch_state |-> st3, created |-> FALSE,
                   process |-> NoProcess]
        ELSE [result |-> Success, calls |-> head \o exec.calls \o tail, is_loaded |-> TRUE,
              overlay_ncch |-> ov1, ncch_state |-> st3, created |-> exec.created,
              process |-> exec.process]

\* the values an uninitialised ncch_program_id may hold
GarbageProgramIds == {<<0, 0>>, <<262144, 4660>>}

Load ==
    \E garbage \in (IF ContainerRead(ContainerAfterLoad(ncch_state, Base, env), Base, env,
                                     env.program_id_res) = Success
                    THEN {<<0, 0>>} ELSE GarbageProgramIds) :
        LET o == LoadOutcome(is_loaded, overlay_ncch, ncch_state, env, totals.processes + 1,
                             garbage)
        IN  /\ is_loaded' = o.is_loaded
            /\ overlay_ncch' = o.overlay_ncch
            /\ ncch_state' = o.ncch_state
            /\ process' = IF o.created THEN o.process ELSE process
            /\ totals' = TotalsAfter(totals, o.calls)
            /\ preferred_regions' = CfgAfter(preferred_regions, o.calls)
            /\ calls' = o.calls
            /\ lastOp' = "Load"
            /\ result' = o.result
            /\ out' = <<>>
            /\ load_called' = TRUE
            /\ UNCHANGED env

----------------------------------------------------------------------------
(* The other operations of the loader *)

\* an operation that changes nothing of the loader but the containers' state
Returns(op, res, value, log, st) ==
    /\ lastOp' = op
    /\ result' = res
    /\ out' = value
    /\ calls' = log
    /\ ncch_state' = st
    /\ totals' = TotalsAfter(totals, log)
    /\ UNCHANGED <<is_loaded, overlay_ncch, process, preferred_regions, load_called, env>>

\* LoadExec on its own; the kernel's code-set count is capped
LoadExec ==
    LET o == LoadExecOutcome(is_loaded, overlay_ncch, env, totals.processes + 1, FilePath)
    IN  /\ totals.codesets < MaxCodeSets
        /\ process' = IF o.created THEN o.process ELSE process
        /\ totals' = TotalsAfter(totals, o.calls)
        /\ calls' = o.calls
        /\ lastOp' = "LoadExec"
        /\ result' = o.result
        /\ out' = <<>>
        /\ UNCHANGED <<is_loaded, overlay_ncch, ncch_state, preferred_regions, load_called, env>>

\* LoadKernelSystemMode / LoadKernelN3dsMode: load base unless loaded, then read the
\* overlay's exheader
KernelModeLoadsBaseAlways(loaded) == TRUE
KernelModeLoadsBase(loaded) == ~loaded

LoadKernelMode(op, field) ==
    LET base_res == ContainerLoadResult(ncch_state, Base, env)
        loadBase == <<"Load", Base, ncch_state[Base], base_res>>
        caps == env.ncch[overlay_ncch].exheader.arm11_system_local_caps
    IN  IF ~KernelModeLoadsBase(is_loaded)
        THEN Returns(op, Success, <<caps[field]>>, <<>>, ncch_state)
        ELSE IF base_res # Success
             THEN Returns(op, base_res, <<>>, <<loadBase>>, ncch_state)
        ELSE Returns(op, Success, <<caps[field]>>, <<loadBase>>,
                     ContainerAfterLoad(ncch_state, Base, env))

LoadKernelSystemMode == LoadKernelMode("LoadKernelSystemMode", "system_mode")

LoadKernelN3dsMode == LoadKernelMode("LoadKernelN3dsMode", "n3ds_mode")

IsExecutable ==
    LET res == ContainerLoadResult(ncch_state, overlay_ncch, env)
        load == <<"Load", overlay_ncch, ncch_state[overlay_ncch], res>>
    IN  IF res # Success
        THEN Returns("IsExecutable", res, <<>>, <<load>>, ncch_state)
        ELSE Returns("IsExecutable", Success, <<env.ncch[overlay_ncch].is_executable>>,
                     <<load>>, ContainerAfterLoad(ncch_state, overlay_ncch, env))

\* ReadCode, ReadIcon, ReadBanner, ReadLogo: overlay_ncch->LoadSectionExeFS(name, buffer)
ReadSection(op, name, field) ==
    LET res == ContainerRead(ncch_state, overlay_ncch, env, env.ncch[overlay_ncch][field])
    IN  Returns(op, res, <<>>, << <<"LoadSectionExeFS", overlay_ncch, name, res>> >>,
                ContainerAfterLoad(ncch_state, overlay_ncch, env))

ReadCode == ReadSection("ReadCode", ".code", "code_res")

ReadIcon == ReadSection("ReadIcon", "icon", "icon_res")

ReadBanner == ReadSection("ReadBanner", "banner", "banner_res")

ReadLogo == ReadSection("ReadLogo", "logo", "logo_res")

ReadProgramId ==
    LET res == ContainerRead(ncch_state, Base, env, env.program_id_res)
    IN  Returns("ReadProgramId", res, IF res = Success THEN <<env.program_id>> ELSE <<>>,
                << <<"ReadProgramId", Base, res>> >>,
                ContainerAfterLoad(ncch_state, Base, env))

ReadExtdataId ==
    LET res == ContainerRead(ncch_state, Base, env, env.extdata_id_res)
    IN  Returns("ReadExtdataId", res, <<>>, << <<"ReadExtdataId", Base, res>> >>,
                ContainerAfterLoad(ncch_state, Base, env))

ReadRomFS ==
    LET res == ContainerRead(ncch_state, Base, env, env.ncch[Base].romfs_res)
    IN  Returns("ReadRomFS", res, IF res = Success THEN <<Base>> ELSE <<>>,
                << <<"ReadRomFS", Base, res>> >>,
                ContainerAfterLoad(ncch_state, Base, env))

\* if (result != ResultStatus::Success) return base_ncch.ReadRomFS(romfs_file)
FallsBackToBaseAlways(update_result) == TRUE
FallsBackToBase(update_result) == update_result # Success

\* update_ncch.ReadRomFS, and base_ncch.ReadRomFS when that fails
ReadUpdateRomFS ==
    LET upd == ContainerRead(ncch_state, Update, env, env.ncch[Update].romfs_res)
        st1 == ContainerAfterLoad(ncch_state, Update, env)
        bas == ContainerRead(st1, Base, env, env.ncch[Base].romfs_res)
        st2 == ContainerAfterLoad(st1, Base, env)
    IN  IF FallsBackToBase(upd)
        THEN Returns("ReadUpdateRomFS", bas, IF bas = Success THEN <<Base>> ELSE <<>>,
                     << <<"ReadRomFS", Update, upd>>, <<"ReadRomFS", Base, bas>> >>, st2)
        ELSE Returns("ReadUpdateRomFS", Success, <<Update>>,
                     << <<"ReadRomFS", Update, upd>> >>, st1)

DumpRomFS ==
    LET res == ContainerRead(ncch_state, Base, env, env.ncch[Base].dump_res)
    IN  Returns("DumpRomFS", res, <<>>, << <<"DumpRomFS", Base, res>> >>,
                ContainerAfterLoad(ncch_state, Base, env))

\* ReadProgramId (result ignored), update_ncch.OpenFile, update_ncch.DumpRomFS
DumpUpdateRomFS ==
    \E garbage \in (IF ContainerRead(ncch_state, Base, env, env.program_id_res) = Success
                    THEN {<<0, 0>>} ELSE GarbageProgramIds) :
        LET id_res == ContainerRead(ncch_state, Base, env, env.program_id_res)
            st1 == ContainerAfterLoad(ncch_state, Base, env)
            program_id == IF id_res = Success THEN env.program_id ELSE garbage
            st2 == ContainerAfterOpen(st1, Update)
            res == ContainerRead(st2, Update, env, env.ncch[Update].dump_res)
            st3 == ContainerAfterLoad(st2, Update, env)
        IN  Returns("DumpUpdateRomFS", res, <<>>,
                    << <<"ReadProgramId", Base, id_res>>,
                       <<"OpenFile", Update, GetTitleContentPath(OrUpdateMask(program_id))>>,
                       <<"DumpRomFS", Update, res>> >>, st3)

ReadTitle ==
    LET o == ReadTitleOutcome(ncch_state, overlay_ncch, env)
    IN  Returns("ReadTitle", o.result, IF o.result = Success THEN <<o.title>> ELSE <<>>,
                o.calls, ContainerAfterLoad(ncch_state, overlay_ncch, env))

Next ==
    \/ Load
    \/ LoadExec
    \/ LoadKernelSystemMode
    \/ LoadKernelN3dsMode
    \/ IsExecutable
    \/ ReadCode
    \/ ReadIcon
    \/ ReadBanner
    \/ ReadLogo
    \/ ReadProgramId
    \/ ReadExtdataId
    \/ ReadRomFS
    \/ ReadUpdateRomFS
    \/ DumpRomFS
    \/ DumpUpdateRomFS
    \/ ReadTitle

----------------------------------------------------------------------------
(* The inputs: the title's files and the settings *)

\* an extended header; variant 1 and 2 differ in every field the loader passes on
MakeExheader(v, text_pages, ro_pages, data_pages, bss_size) ==
    [codeset_info |->
        [name       |-> IF v = 1 THEN <<65, 112, 112, 0, 88, 0, 0, 0>>
                                 ELSE <<85, 112, 100, 97, 116, 101, 100, 33>>,
         text       |-> [address |-> 1048576 * v, num_max_pages |-> text_pages],
         ro         |-> [address |-> 1048576 * v + 65536, num_max_pages |-> ro_pages],
         data       |-> [address |-> 1048576 * v + 131072, num_max_pages |-> data_pages],
         stack_size |-> 16384 * v,
         bss_size   |-> bss_size],
     arm11_system_local_caps |->
        [priority                |-> 24 * v,
         ideal_processor         |-> v - 1,
         resource_limit_category |-> v - 1,
         system_mode             |-> 2 * (v - 1),
         n3ds_mode               |-> v - 1],
     arm11_kernel_caps |-> [descriptors |-> [i \in 1..NUM_DESCRIPTORS |-> 1000 * v + i]]]

\* a short-title buffer: the given code units, zero-filled to its fixed length
ShortTitle(units) == units \o Repeat(0, ShortTitleLen - Len(units))

MakeIcon(size, magic_ok, region_lockout, units) ==
    [size |-> size, magic_ok |-> magic_ok, region_lockout |-> region_lockout,
     short_title |-> ShortTitle(units)]

\* the icon of the container the loader does not read from
OtherIcon == MakeIcon(SizeofSMDH, TRUE, {1, 2}, <<79, 116, 104, 101, 114>>)

\* the icon the loader reads unless a specification varies it: "AB\0XX"
PlainIcon == MakeIcon(SizeofSMDH, TRUE, {0, 6}, <<65, 66, 0, 88, 88>>)

\* the contents of one container
Content(exheader, code_res, code, icon_res, icon, patch_res) ==
    [exheader |-> exheader, code_res |-> code_res, code |-> code, icon_res |-> icon_res,
     icon |-> icon, patch_res |-> patch_res]

PlainCode == <<1, 2, 3>>

\* what the overlay container holds unless a specification varies it
PlainContent == Content(MakeExheader(2, 1, 1, 1, Bytes(0, 1)), Success, PlainCode,
                        Success, PlainIcon, ErrorNotUsed)

\* what the other container holds: nothing the loader may use comes from here
OtherContent(v) == Content(MakeExheader(v, 5, 6, 7, Bytes(3, 0)), Success, <<9, 9>>,
                           Success, OtherIcon, Success)

Container(load_res, content) ==
    [load_res |-> load_res, exheader |-> content.exheader, code_res |-> content.code_res,
     code |-> content.code, icon_res |-> content.icon_res, icon |-> content.icon,
     patch_res |-> content.patch_res, banner_res |-> Success, logo_res |-> ErrorNotUsed,
     romfs_res |-> Success, dump_res |-> Success, is_executable |-> TRUE]

TitleId == <<262144, 198656>>

\* the files and settings in which the container that becomes the overlay (update when
\* it loads, base otherwise) holds content and the other container holds OtherContent
MakeEnv(base_res, update_res, program_id_res, content, room_member, region_value, titles) ==
    [ncch |-> [c \in Containers |->
                 IF c = Base
                 THEN Container(base_res,
                                IF update_res = Success THEN OtherContent(1) ELSE content)
                 ELSE Container(update_res,
                                IF update_res = Success THEN content ELSE OtherContent(2))],
     program_id_res |-> program_id_res,
     program_id     |-> TitleId,
     extdata_id_res |-> Success,
     room_member    |-> room_member,
     region_value   |-> region_value,
     system_titles  |-> titles]

\* the loader after construction: nothing loaded, the overlay is the base container,
\* only the base container has a file
InitWith(envs) ==
    /\ env \in envs
    /\ is_loaded = FALSE
    /\ overlay_ncch = Base
    /\ ncch_state = [c \in Containers |-> IF c = Base THEN "opened" ELSE "unopened"]
    /\ process = NoProcess
    /\ totals = [telemetry |-> 0, game_info |-> 0, codesets |-> 0, patches |-> 0,
                 processes |-> 0, runs |-> 0, fs_user |-> 0, self_ncch |-> 0, cfg_set |-> 0]
    /\ preferred_regions = NotSet
    /\ calls = <<>>
    /\ lastOp = "none"
    /\ result = Success
    /\ out = <<>>
    /\ load_called = FALSE

\* an executable section that is nothing but the legacy trailer
GbaTrailer == <<46, 67, 65, 65, 1, 0, 0, 0, 7, 7, 7, 7, 7, 7, 7, 7>>

\* inputs that vary what the containers answer to Load and to the reads of LoadExec,
\* and inputs with the legacy trailer
LoadEnvs ==
    { MakeEnv(b, u, i, Content(PlainContent.exheader, cr, PlainCode, ir, PlainIcon, pr),
              room, REGION_VALUE_AUTO_SELECT, {}) :
        b \in {Success, Error, ErrorInvalidFormat},
        u \in {Success, Error, ErrorEncrypted},
        i \in {Success, ErrorNotUsed},
        cr \in {Success, Error},
        ir \in {Success, ErrorNotUsed},
        pr \in {Success, ErrorNotUsed, ErrorMemoryAllocationFailed},
        room \in BOOLEAN }
    \cup
    { MakeEnv(Success, u, Success,
              Content(PlainContent.exheader, Success, GbaTrailer, Success, PlainIcon,
                      ErrorNotUsed),
              room, REGION_VALUE_AUTO_SELECT, {}) :
        u \in {Success, Error},
        room \in BOOLEAN }

Init == InitWith(LoadEnvs)

Spec == Init /\ [][Next]_vars

\* the .code sections tried: every short content in front of a 16-byte trailer, and
\* sections shorter than a trailer
RECURSIVE SeqsUpTo(_, _)
SeqsUpTo(alphabet, n) ==
    IF n = 0 THEN {<<>>}
    ELSE LET shorter == SeqsUpTo(alphabet, n - 1)
         IN  shorter \cup {<<a>> \o t : a \in alphabet, t \in {x \in shorter : Len(x) = n - 1}}


Trailers ==
    {GbaTrailer,
     <<46, 67, 65, 65, 1, 0, 0, 0, 0, 0, 0, 0, 0, 0, 0, 0>>,
     <<46, 67, 65, 65, 2, 0, 0, 0, 0, 0, 0, 0, 0, 0, 0, 0>>,
     <<46, 67, 65, 65, 1, 1, 0, 0, 0, 0, 0, 0, 0, 0, 0, 0>>,
     <<46, 67, 65, 65, 0, 0, 0, 1, 0, 0, 0, 0, 0, 0, 0, 0>>,
     <<46, 67, 65, 66, 1, 0, 0, 0, 0, 0, 0, 0, 0, 0, 0, 0>>,
     <<0, 0, 0, 0, 0, 0, 0, 0, 46, 67, 65, 65, 1, 0, 0, 0>>}

CodeSections ==
    {p \o t : p \in SeqsUpTo({0, 46}, MaxPrefixLen), t \in Trailers}
        \cup {SubSeq(GbaTrailer, 1, n) : n \in {0, 8, 15}}
        \cup {GbaTrailer \o <<0>>}

\* inputs that vary the executable section and the patch of the overlay container
ExecEnvs ==
    { MakeEnv(Success, u, i,
              Content(MakeExheader(2, 1, 1, 1, bss), cr, code, Success, PlainIcon, pr),
              FALSE, REGION_VALUE_AUTO_SELECT, {}) :
        u \in {Success, Error},
        i \in {Success, ErrorNotUsed},
        cr \in {Success},
        code \in CodeSections,
        bss \in {Bytes(0, 1)},
        pr \in {ErrorNotUsed} }
    \cup
    { MakeEnv(Success, u, Success,
              Content(MakeExheader(2, 1, 1, 1, bss), cr, code, Success, PlainIcon, pr),
              FALSE, REGION_VALUE_AUTO_SELECT, {}) :
        u \in {Success, Error},
        cr \in {Success, Error},
        code \in {PlainCode, GbaTrailer},
        bss \in {Bytes(0, 0), Bytes(0, 1), Bytes(1, 1)},
        pr \in {Success, ErrorNotUsed, Error, ErrorMemoryAllocationFailed} }

InitExec == InitWith(ExecEnvs)

SpecExec == InitExec /\ [][Next]_vars

\* u32 page counts and bss sizes around zero and around the wrap of a u32 byte count
PageCounts == {0, 1, 3, PagesPerU32, PagesPerU32 + 1}

BssSizes ==
    {Bytes(0, 0), Bytes(0, 1), Bytes(1, 0), Bytes(1, CITRA_PAGE_SIZE - 1),
     Bytes(PagesPerU32 - 1, 0), Bytes(PagesPerU32 - 1, 1),
     Bytes(PagesPerU32 - 1, CITRA_PAGE_SIZE - 1)}

\* inputs that vary the segment descriptors and the bss size of the overlay's header
LayoutEnvs ==
    { MakeEnv(Success, u, Success,
              Content(MakeExheader(v, t, r, d, bss), Success, PlainCode, Success, PlainIcon,
                      ErrorNotUsed),
              FALSE, REGION_VALUE_AUTO_SELECT, {}) :
        u \in {Success, Error},
        v \in {2},
        t \in PageCounts,
        r \in {0, 1, PagesPerU32 + 1},
        d \in {1, PagesPerU32 - 1},
        bss \in BssSizes }

InitLayout == InitWith(LayoutEnvs)

SpecLayout == InitLayout /\ [][Next]_vars

\* 32-bit lockout masks: every choice of bits 0..6, half of them with higher bits set
LockoutMasks ==
    {low \cup (IF Cardinality(low) % 2 = 0 THEN {} ELSE {7, 31}) : low \in SUBSET (0..6)}

\* inputs that vary the lockout mask of a usable icon
MaskEnvs ==
    { MakeEnv(Success, u, Success,
              Content(PlainContent.exheader, Success, PlainCode, Success,
                      MakeIcon(size, TRUE, mask, <<65>>), ErrorNotUsed),
              FALSE, REGION_VALUE_AUTO_SELECT, titles) :
        u \in {Success, Error},
        size \in {SizeofSMDH},
        mask \in LockoutMasks,
        titles \in {{<<TitleId, 3>>}} }

\* inputs that vary the region mode, the icon's presence and size, and the table
FallbackEnvs ==
    { MakeEnv(Success, u, Success,
              Content(PlainContent.exheader, Success, PlainCode, ir,
                      MakeIcon(size, TRUE, mask, <<65>>), ErrorNotUsed),
              FALSE, rv, titles) :
        u \in {Success, Error},
        ir \in {Success, ErrorNotUsed},
        size \in {0, SizeofSMDH - 1, SizeofSMDH, SizeofSMDH + 1},
        mask \in {{0, 6}, {2}},
        rv \in {REGION_VALUE_AUTO_SELECT, "1"},
        titles \in {{<<TitleId, 3>>}, {<<<<262144, 4660>>, 4>>}} }

InitRegion == InitWith(MaskEnvs \cup FallbackEnvs)

SpecRegion == InitRegion /\ [][Next]_vars

\* inputs that vary whether the containers load and what their filesystem readers answer
RomFSEnvs ==
    { [MakeEnv(b, u, Success, PlainContent, FALSE, REGION_VALUE_AUTO_SELECT, {})
         EXCEPT !.ncch[Base].romfs_res = rb, !.ncch[Update].romfs_res = ru] :
        b \in {Success, Error},
        u \in {Success, Error},
        rb \in {Success, ErrorNotUsed, Error},
        ru \in {Success, ErrorNotUsed} }

\* short titles: "AB\0XX", empty, a leading null, no null at all, and code units that
\* take two and three bytes in the output encoding
TitleUnits ==
    {<<65, 66, 0, 88, 88>>, <<>>, <<0, 65>>, Repeat(65, ShortTitleLen), <<233, 8364, 0, 90>>}

\* inputs that vary the icon section: its read, its size, its magic and its short title
TitleEnvs ==
    { MakeEnv(Success, u, Success,
              Content(PlainContent.exheader, Success, PlainCode, ir,
                      MakeIcon(size, magic_ok, {0}, units), ErrorNotUsed),
              room, REGION_VALUE_AUTO_SELECT, {}) :
        u \in {Success, Error},
        ir \in {Success, ErrorNotUsed},
        size \in {0, SizeofSMDH - 1, SizeofSMDH, SizeofSMDH + 1},
        magic_ok \in BOOLEAN,
        units \in TitleUnits,
        room \in {FALSE} }

InitTitle == InitWith(TitleEnvs)

SpecTitle == InitTitle /\ [][Next]_vars

InitRomFS == InitWith(RomFSEnvs)

SpecRomFS == InitRomFS /\ [][Next]_vars

----------------------------------------------------------------------------
(* Claims about Load *)

\* the calls of a log that load container c
LoadCallOn(log, c) ==
    LET loads == CallsTo(log, "Load")
    IN  {loads[i] : i \in {j \in 1..Len(loads) : loads[j][2] = c}}

\* a log without telemetry, broadcast, code set, process or run
NoSideEffects(log) ==
    /\ Count(log, "AddField") = 0
    /\ Count(log, "SendGameInfo") = 0
    /\ Count(log, "CreateCodeSet") = 0
    /\ Count(log, "CreateProcess") = 0
    /\ Count(log, "Run") = 0

\* C1 as stated: a call to Load after an earlier call to Load returns the
\* already-loaded error, makes no collaborator call and leaves the loaded flag and the
\* overlay selection alone, whatever the first call returned.
C1_SecondLoadRejectedAlways ==
    [][(load_called /\ lastOp' = "Load")
        => /\ result' = ErrorAlreadyLoaded
           /\ NoSideEffects(calls')
           /\ totals' = totals
           /\ is_loaded' = is_loaded
           /\ overlay_ncch' = overlay_ncch]_vars

\* C1 amended: a call to Load made once a Load has got past the base container's load
\* (the loaded flag is set) returns the already-loaded error, makes no collaborator
\* call at all, creates no process, records no telemetry, broadcasts nothing and
\* changes neither the loaded flag nor the overlay selection.
C1_SecondLoadRejectedOnceLoaded ==
    [][(is_loaded /\ lastOp' = "Load")
        => /\ result' = ErrorAlreadyLoaded
           /\ calls' = <<>>
           /\ totals' = totals
           /\ process' = process
           /\ is_loaded' = is_loaded
           /\ overlay_ncch' = overlay_ncch
           /\ ncch_state' = ncch_state
           /\ preferred_regions' = preferred_regions]_vars

\* a second Load has been rejected after a first Load that recorded telemetry
C1_Witness ==
    /\ lastOp = "Load"
    /\ result = ErrorAlreadyLoaded
    /\ is_loaded
    /\ totals.telemetry = 1

\* C2: after a Load that returns success the overlay selection is a loaded container:
\* the update container exactly when its load succeeded during that Load, the base
\* container otherwise.
C2_OverlayAfterLoad ==
    (lastOp = "Load" /\ result = Success)
        => /\ overlay_ncch \in Containers
           /\ ncch_state[overlay_ncch] = "loaded"
           /\ ncch_state[Base] = "loaded"
           /\ Cardinality(LoadCallOn(calls, Update)) = 1
           /\ overlay_ncch = Update <=> (\E l \in LoadCallOn(calls, Update) : l[4] = Success)
           /\ overlay_ncch = Base <=> (\E l \in LoadCallOn(calls, Update) : l[4] # Success)

\* a successful Load selected the update container, and another the base container
C2_Witness ==
    /\ lastOp = "Load"
    /\ result = Success
    /\ overlay_ncch = Update
    /\ env.ncch[Update].load_res = Success

\* what Load returns when only the base container's content decides
ResultFromBase ==
    LET b == env.ncch[Base]
    IN  IF b.code_res # Success \/ env.program_id_res # Success THEN Error
        ELSE IF Len(b.code) >= GbaVcHeaderSize
                /\ SubSeq(b.code, Len(b.code) - 15, Len(b.code) - 8)
                       = <<46, 67, 65, 65, 1, 0, 0, 0>> THEN ErrorGbaTitle
        ELSE IF b.patch_res \notin {Success, ErrorNotUsed} THEN b.patch_res
        ELSE Success

\* C3: when the base container's load fails, Load returns the base's error and makes
\* no other call (no update open or load, no telemetry, no broadcast, no process) and
\* the loaded flag stays false; when the base loads and the update container's load
\* fails, Load goes on with the base container and returns what the base's content
\* decides, as it does without an update container.
C3_LoadErrorPolicy ==
    lastOp = "Load" /\ calls # <<>>
        => LET base == calls[1]
           IN  /\ base[1] = "Load" /\ base[2] = Base
               /\ base[4] # Success
                    => /\ result = base[4]
                       /\ result = env.ncch[Base].load_res
                       /\ calls = <<base>>
                       /\ ~is_loaded
                       /\ overlay_ncch = Base
                       /\ ncch_state[Base] # "loaded"
                       /\ process = NoProcess
                       /\ totals.telemetry = 0 /\ totals.game_info = 0
                       /\ totals.processes = 0
               /\ (base[4] = Success
                   /\ \E l \in LoadCallOn(calls, Update) : l[4] # Success)
                    => /\ overlay_ncch = Base
                       /\ is_loaded
                       /\ result = ResultFromBase
                       /\ Count(calls, "AddField") = 1

\* a Load succeeded although the update container's load failed
C3_Witness ==
    /\ lastOp = "Load"
    /\ result = Success
    /\ env.ncch[Update].load_res = ErrorEncrypted
    /\ \E l \in LoadCallOn(calls, Update) : l[4] = ErrorEncrypted

\* a Load returned the base container's error
C3_WitnessBaseFails ==
    /\ lastOp = "Load"
    /\ result = ErrorInvalidFormat
    /\ Len(calls) = 1

----------------------------------------------------------------------------
(* Claims about the image build (LoadExec) *)

\* the last operation ran the image build on a loaded loader
BuildRan == lastOp \in {"Load", "LoadExec"} /\ Count(calls, "LoadSectionExeFS") > 0

\* the build of the last operation read the executable section of the overlay
CodeWasRead ==
    /\ lastOp \in {"Load", "LoadExec"}
    /\ \E i \in 1..Len(calls) : calls[i] = <<"LoadSectionExeFS", overlay_ncch, ".code", Success>>

\* the executable section of the overlay and its header
OverlayCode == env.ncch[overlay_ncch].code
OverlayHeader == env.ncch[overlay_ncch].exheader

\* the final 16 bytes begin with the tag ".CAA" followed by the 32-bit value 1
HasLegacyTrailer(code) ==
    /\ Len(code) >= 16
    /\ SubSeq(code, Len(code) - 15, Len(code) - 8) = <<46, 67, 65, 65, 1, 0, 0, 0>>

\* the last operation stopped before any process image, patch, process or run
StoppedBeforeImage ==
    /\ Count(calls, "CreateCodeSet") = 0
    /\ Count(calls, "ApplyCodePatch") = 0
    /\ Count(calls, "CreateProcess") = 0
    /\ Count(calls, "Run") = 0

\* C4 as stated: whenever the executable bytes read from the overlay end in the
\* legacy trailer the build fails with the dedicated error before any image, patch,
\* process or run; shorter sections are never rejected by the rule.
C4_LegacyTrailerAlwaysRejected ==
    CodeWasRead
        => /\ HasLegacyTrailer(OverlayCode)
                => (result = ErrorGbaTitle /\ ErrorGbaTitle # Error /\ StoppedBeforeImage)
           /\ Len(OverlayCode) < 16 => result # ErrorGbaTitle

\* C4 amended: the same, provided the program-id read that follows the read of the
\* executable section succeeds (when it fails the build fails with the generic error,
\* also before any image, patch, process or run).
C4_LegacyTrailerRejected ==
    CodeWasRead
        => /\ (HasLegacyTrailer(OverlayCode) /\ env.program_id_res = Success)
                => (result = ErrorGbaTitle /\ ErrorGbaTitle # Error /\ StoppedBeforeImage)
           /\ (HasLegacyTrailer(OverlayCode) /\ env.program_id_res # Success)
                => (result = Error /\ StoppedBeforeImage)
           /\ Len(OverlayCode) < 16 => result # ErrorGbaTitle

\* a section with content in front of the legacy trailer has been rejected
C4_Witness ==
    /\ CodeWasRead
    /\ Len(OverlayCode) > 16
    /\ HasLegacyTrailer(OverlayCode)
    /\ result = ErrorGbaTitle

\* a section of 15 bytes, the start of the legacy trailer, has been built and run
C4_WitnessShort ==
    /\ CodeWasRead
    /\ Len(OverlayCode) = 15
    /\ result = Success
    /\ Count(calls, "Run") = 1

\* the padded bss size of a header, as the loader computes it
PaddedBss(exheader) == BssPageSize(exheader)

\* C8: the patch of the overlay is applied once per build that reaches it, to the
\* buffer already extended by the padded bss; after Success or ErrorNotUsed the build
\* goes on to create the process, and any other patch result is the build's result,
\* with no process, capabilities, registration or run.
C8_PatchPolicy ==
    BuildRan
        => LET patches == CallsTo(calls, "ApplyCodePatch")
               at == FirstAt(calls, "ApplyCodePatch", 1)
           IN  /\ Len(patches) <= 1
               /\ Len(patches) = Count(calls, "CreateCodeSet")
               /\ Count(calls, "CreateProcess") <= Len(patches)
               /\ Len(patches) = 1
                    => /\ patches[1][2] = overlay_ncch
                       /\ patches[1][4] = env.ncch[overlay_ncch].patch_res
                       /\ patches[1][3].bytes = OverlayCode
                       /\ patches[1][3].pad = PaddedBss(OverlayHeader)
                       /\ BufferSize(patches[1][3])
                            = AddSize(Bytes(0, Len(OverlayCode)), PaddedBss(OverlayHeader))
                       /\ patches[1][4] \in {Success, ErrorNotUsed}
                            => /\ result = Success
                               /\ Count(calls, "CreateProcess") = 1
                               /\ calls[at + 1][1] = "CreateProcess"
                               /\ process.codeset.memory.buffer = patches[1][3]
                       /\ patches[1][4] \notin {Success, ErrorNotUsed}
                            => /\ result = patches[1][4]
                               /\ at = Len(calls)
                               /\ Count(calls, "CreateProcess") = 0
                               /\ Count(calls, "ParseKernelCaps") = 0
                               /\ Count(calls, "Register") = 0
                               /\ Count(calls, "RegisterSelfNCCH") = 0
                               /\ Count(calls, "Run") = 0

\* a build was stopped by a patch error, after the buffer was extended by one page
C8_Witness ==
    /\ BuildRan
    /\ result = ErrorMemoryAllocationFailed
    /\ Count(calls, "ApplyCodePatch") = 1
    /\ CallsTo(calls, "ApplyCodePatch")[1][3].pad = Bytes(1, 0)

\* a build went on after the patch answered ErrorNotUsed
C8_WitnessNotUsed ==
    /\ BuildRan
    /\ result = Success
    /\ Count(calls, "ApplyCodePatch") = 1
    /\ CallsTo(calls, "ApplyCodePatch")[1][4] = ErrorNotUsed

----------------------------------------------------------------------------
(* Claims about the layout of the process image *)

\* the last operation built a process image and created a process from it
ImageBuilt ==
    /\ lastOp \in {"Load", "LoadExec"}
    /\ result = Success
    /\ process.status = "running"

\* n pages in bytes, without a width
Pages(n) == Bytes(n, 0)

\* the smallest multiple of the page size that is >= a byte count, without a width
RoundUpToPage(v) == Bytes(v.pg + (IF v.off > 0 THEN 1 ELSE 0), 0)

\* C5 as stated: code at offset 0 with size text pages x 4096; read-only data right
\* after it with size ro pages x 4096; data right after that with size data pages x
\* 4096 + the padded bss size; target addresses and the entry address from the header.
C5_LayoutFromHeader ==
    ImageBuilt
        => LET cs == process.codeset
               info == OverlayHeader.codeset_info
           IN  /\ cs.CodeSegment.offset = Bytes(0, 0)
               /\ cs.CodeSegment.size = Pages(info.text.num_max_pages)
               /\ cs.RODataSegment.offset = cs.CodeSegment.size
               /\ cs.RODataSegment.size = Pages(info.ro.num_max_pages)
               /\ cs.DataSegment.offset = AddSize(cs.RODataSegment.offset, cs.RODataSegment.size)
               /\ cs.DataSegment.size
                    = AddSize(Pages(info.data.num_max_pages), RoundUpToPage(info.bss_size))
               /\ cs.CodeSegment.addr = info.text.address
               /\ cs.RODataSegment.addr = info.ro.address
               /\ cs.DataSegment.addr = info.data.address
               /\ cs.entrypoint = cs.CodeSegment.addr

\* the end of a segment's range in the buffer
SegmentEnd(seg) == AddSize(seg.offset, seg.size)

\* two segments share a byte of the buffer
Overlap(a, b) ==
    /\ LtBytes(a.offset, SegmentEnd(a))
    /\ LtBytes(b.offset, SegmentEnd(b))
    /\ LtBytes(a.offset, SegmentEnd(b))
    /\ LtBytes(b.offset, SegmentEnd(a))

\* C6 as stated: in every image built the three offsets are strictly increasing,
\* code < read-only data < data, and the three buffer ranges do not overlap.
C6_OffsetsStrictlyIncreasing ==
    ImageBuilt
        => LET cs == process.codeset
           IN  /\ LtBytes(cs.CodeSegment.offset, cs.RODataSegment.offset)
               /\ LtBytes(cs.RODataSegment.offset, cs.DataSegment.offset)
               /\ ~Overlap(cs.CodeSegment, cs.RODataSegment)
               /\ ~Overlap(cs.RODataSegment, cs.DataSegment)
               /\ ~Overlap(cs.CodeSegment, cs.DataSegment)

\* C6 amended: in every image built the three offsets are non-decreasing, code <=
\* read-only data <= data, each segment starts where the one before it ends, an offset
\* is strictly larger than the one before it exactly when the segment before it has a
\* non-zero size (its page count x 4096 modulo 2^32), and the three buffer ranges do
\* not overlap.
C6_OffsetsNonDecreasing ==
    ImageBuilt
        => LET cs == process.codeset
               info == OverlayHeader.codeset_info
           IN  /\ cs.CodeSegment.offset = Bytes(0, 0)
               /\ LeqBytes(cs.CodeSegment.offset, cs.RODataSegment.offset)
               /\ LeqBytes(cs.RODataSegment.offset, cs.DataSegment.offset)
               /\ cs.RODataSegment.offset = SegmentEnd(cs.CodeSegment)
               /\ cs.DataSegment.offset = SegmentEnd(cs.RODataSegment)
               /\ LtBytes(cs.CodeSegment.offset, cs.RODataSegment.offset)
                    <=> info.text.num_max_pages % PagesPerU32 # 0
               /\ LtBytes(cs.RODataSegment.offset, cs.DataSegment.offset)
                    <=> info.ro.num_max_pages % PagesPerU32 # 0
               /\ ~Overlap(cs.CodeSegment, cs.RODataSegment)
               /\ ~Overlap(cs.RODataSegment, cs.DataSegment)
               /\ ~Overlap(cs.CodeSegment, cs.DataSegment)

\* an image was built from a header whose code page count wraps to size 0 and whose
\* read-only-data page count is 1
C6_Witness ==
    /\ ImageBuilt
    /\ OverlayHeader.codeset_info.text.num_max_pages = PagesPerU32
    /\ OverlayHeader.codeset_info.ro.num_max_pages = 1
    /\ process.codeset.RODataSegment.offset = Bytes(0, 0)
    /\ process.codeset.DataSegment.offset = Bytes(1, 0)

\* C7 as stated: the padded bss size is the smallest multiple of 4096 that is >= the
\* raw bss size, and the buffer handed on is the executable bytes followed by exactly
\* that many zero bytes.
C7_BssRoundedUp ==
    ImageBuilt
        => LET buffer == process.codeset.memory.buffer
               raw == OverlayHeader.codeset_info.bss_size
           IN  /\ buffer.bytes = OverlayCode
               /\ buffer.fill = 0
               /\ buffer.pad.off = 0
               /\ LeqBytes(raw, buffer.pad)
               /\ buffer.pad = RoundUpToPage(raw)
               /\ BufferSize(buffer) = AddSize(Bytes(0, Len(OverlayCode)), RoundUpToPage(raw))

----------------------------------------------------------------------------
(* Claims about the region resolver (ParseRegionLockoutInfo) *)

\* the last operation ran the region resolver: only a Load that returns success does
ResolverRan == lastOp = "Load" /\ result = Success

OverlayIcon == env.ncch[overlay_ncch].icon

\* the icon of the overlay is readable and at least as large as the icon layout
IconReadable ==
    /\ env.ncch[overlay_ncch].icon_res = Success
    /\ OverlayIcon.size >= SizeofSMDH

\* the lists handed to the configuration store by the last operation
RegionLists ==
    LET sets == CallsTo(calls, "SetPreferredRegionCodes")
    IN  [i \in 1..Len(sets) |-> sets[i][2]]

\* C9: in automatic region mode with a readable icon of at least the layout's size,
\* the resolver hands the configuration store, in one call, the list of exactly the
\* i in 0..6 whose bit i is set in the lockout mask, ascending and without duplicates.
C9_RegionsFromMask ==
    (ResolverRan /\ env.region_value = REGION_VALUE_AUTO_SELECT /\ IconReadable)
        => /\ Len(RegionLists) = 1
           /\ LET regions == RegionLists[1]
              IN  /\ \A i \in 0..6 :
                        (i \in OverlayIcon.region_lockout)
                            <=> (\E k \in 1..Len(regions) : regions[k] = i)
                  /\ \A k \in 1..Len(regions) : regions[k] \in 0..6
                  /\ \A k \in 1..(Len(regions) - 1) : regions[k] < regions[k + 1]
                  /\ Len(regions) = Cardinality(OverlayIcon.region_lockout \cap (0..6))
                  /\ preferred_regions = [set |-> TRUE, codes |-> regions]

\* the mask with bits 0, 3, 6, 7 and 31 set has given the list <<0, 3, 6>>
C9_Witness ==
    /\ ResolverRan
    /\ OverlayIcon.region_lockout = {0, 3, 6, 7, 31}
    /\ RegionLists = << <<0, 3, 6>> >>

\* the program id the resolver looks up is in the static system-title table
InSystemTitles == \E t \in env.system_titles : t[1] = env.program_id

\* C10: the resolver makes no call to the configuration store when the region mode is
\* not automatic, and none when the icon is absent or undersized and the program id is
\* not in the system-title table; when the icon is absent or undersized and the table
\* has the program id it makes one call, with a list of one region, the table's.
C10_ResolverFrame ==
    ResolverRan
        => /\ env.region_value # REGION_VALUE_AUTO_SELECT
                => /\ Len(RegionLists) = 0
                   /\ preferred_regions = NotSet
                   /\ Count(calls, "GetSystemTitleRegion") = 0
           /\ (env.region_value = REGION_VALUE_AUTO_SELECT /\ ~IconReadable /\ ~InSystemTitles)
                => /\ Len(RegionLists) = 0
                   /\ preferred_regions = NotSet
           /\ (env.region_value = REGION_VALUE_AUTO_SELECT /\ ~IconReadable /\ InSystemTitles)
                => /\ Len(RegionLists) = 1
                   /\ Len(RegionLists[1]) = 1
                   /\ \E t \in env.system_titles :
                        t[1] = env.program_id /\ RegionLists[1] = <<t[2]>>
                   /\ preferred_regions = [set |-> TRUE, codes |-> RegionLists[1]]

\* a Load succeeded in a fixed region mode and left the configuration alone
C10_Witness ==
    /\ ResolverRan
    /\ env.region_value # REGION_VALUE_AUTO_SELECT
    /\ IconReadable
    /\ preferred_regions = NotSet

\* an icon one byte short of the layout made the resolver use the table's region
C10_WitnessTable ==
    /\ ResolverRan
    /\ env.region_value = REGION_VALUE_AUTO_SELECT
    /\ env.ncch[overlay_ncch].icon_res = Success
    /\ OverlayIcon.size = SizeofSMDH - 1
    /\ RegionLists = << <<3>> >>

\* an absent icon and a program id missing from the table: nothing was set
C10_WitnessMiss ==
    /\ ResolverRan
    /\ env.region_value = REGION_VALUE_AUTO_SELECT
    /\ env.ncch[overlay_ncch].icon_res # Success
    /\ ~InSystemTitles
    /\ preferred_regions = NotSet

----------------------------------------------------------------------------
(* Claims about the embedded-filesystem reads *)

\* the last operation was a read of the embedded filesystem through the update container
UpdateRomFSRead == lastOp = "ReadUpdateRomFS" /\ Len(calls) >= 1

C11_WitnessNoUpdate ==
    /\ UpdateRomFSRead
    /\ load_called
    /\ ncch_state[Update] = "opened"
    /\ result = Success
    /\ out = <<Base>>

\* the update container's reader was returned without asking the base
C11_WitnessUpdate ==
    /\ UpdateRomFSRead
    /\ Len(calls) = 1
    /\ out = <<Update>>

----------------------------------------------------------------------------
(* Claims about telemetry and the session broadcast *)

\* the files and settings e with the session switched to room and with icon sections
\* that answer ib (base) and iu (update) and carry a valid magic or not
SessionVariants(e) ==
    { [e EXCEPT !.room_member = room,
                !.ncch[Base].icon_res = ib,
                !.ncch[Update].icon_res = iu,
                !.ncch[Base].icon.magic_ok = ok,
                !.ncch[Update].icon.magic_ok = ok] :
        room \in BOOLEAN, ib \in {Success, ErrorNotUsed}, iu \in {Success, ErrorNotUsed},
        ok \in BOOLEAN }

\* a log without its session broadcast: the title's icon read and SendGameInfo
WithoutBroadcast(log) ==
    LET at == FirstAt(log, "SendGameInfo", 1)
    IN  IF at = 0 THEN log
        ELSE SubSeq(log, 1, at - 2) \o SubSeq(log, at + 1, Len(log))

\* C12: what Load returns, the process it produces (image and run parameters), the
\* loaded flag and the overlay selection are the same with and without a session and
\* whatever the title read made for the broadcast answers; a Load without a session
\* makes no title read and no broadcast, and a Load with a session makes the calls of
\* a Load without one plus one title read followed by one broadcast; telemetry is
\* recorded once by every Load that gets past the base container's load.
C12_SessionDoesNotChangeOutcome ==
    [][lastOp' = "Load"
        => /\ \A e2 \in SessionVariants(env) : \A garbage \in GarbageProgramIds :
                LET o == LoadOutcome(is_loaded, overlay_ncch, ncch_state, e2,
                                     totals.processes + 1, garbage)
                IN  /\ o.result = result'
                    /\ o.is_loaded = is_loaded'
                    /\ o.overlay_ncch = overlay_ncch'
                    /\ (IF o.created THEN o.process ELSE process) = process'
           /\ \E garbage \in GarbageProgramIds \cup {<<0, 0>>} :
                LoadOutcome(is_loaded, overlay_ncch, ncch_state,
                            [env EXCEPT !.room_member = FALSE],
                            totals.processes + 1, garbage).calls = WithoutBroadcast(calls')
           /\ Count(calls', "SendGameInfo")
                = (IF env.room_member /\ Count(calls', "AddField") = 1 THEN 1 ELSE 0)
           /\ Count(calls', "SendGameInfo") = 1
                => LET at == FirstAt(calls', "SendGameInfo", 1)
                   IN  /\ calls'[at - 1][1] = "LoadSectionExeFS"
                       /\ calls'[at - 1][3] = "icon"
                       /\ calls'[at - 2][1] = "AddField"
           /\ Count(calls', "AddField") = (IF Len(calls') > 1 THEN 1 ELSE 0)]_vars

\* a Load with a session succeeded although the title read for the broadcast failed
C12_Witness ==
    /\ lastOp = "Load"
    /\ result = Success
    /\ env.room_member
    /\ env.ncch[overlay_ncch].icon_res # Success
    /\ Count(calls, "SendGameInfo") = 1
    /\ process.status = "running"

\* a Load without a session succeeded, with telemetry and without a broadcast
C12_WitnessNoSession ==
    /\ lastOp = "Load"
    /\ result = Success
    /\ ~env.room_member
    /\ Count(calls, "AddField") = 1
    /\ Count(calls, "SendGameInfo") = 0

----------------------------------------------------------------------------
(* Claims about the order and the guards of the operations *)

\* C13: LoadExec invoked while the loaded flag is not set returns the not-loaded
\* error without any call (no read of the executable section or of the program id, no
\* code set, patch, process or run) and leaves the loader, the containers, the
\* caller's process and the configuration as they were.
C13_ExecNeedsLoad ==
    [][(lastOp' = "LoadExec" /\ ~is_loaded)
        => /\ result' = ErrorNotLoaded
           /\ ErrorNotLoaded \notin {Success, Error}
           /\ calls' = <<>>
           /\ is_loaded' = is_loaded
           /\ overlay_ncch' = overlay_ncch
           /\ ncch_state' = ncch_state
           /\ process' = process
           /\ totals' = totals
           /\ preferred_regions' = preferred_regions]_vars

\* LoadExec was refused on a loader whose Load had failed at the base container
C13_Witness ==
    /\ lastOp = "LoadExec"
    /\ result = ErrorNotLoaded
    /\ ~is_loaded
    /\ load_called
    /\ process = NoProcess

\* LoadExec was refused on a loader whose base container a mode query had loaded
C13_WitnessBaseLoaded ==
    /\ lastOp = "LoadExec"
    /\ result = ErrorNotLoaded
    /\ ~is_loaded
    /\ ncch_state[Base] = "loaded"

----------------------------------------------------------------------------
(* Claims about the title reader (ReadTitle) *)

\* the code units of a buffer in front of its first null (all of them without a null)
TitlePrefix(buf) ==
    CHOOSE p \in {SubSeq(buf, 1, n) : n \in 0..Len(buf)} :
        /\ \A i \in 1..Len(p) : p[i] # 0
        /\ Len(p) = Len(buf) \/ buf[Len(p) + 1] = 0

\* the icon read of the last ReadTitle failed, or gave less than the icon layout
IconAbsentOrSmall ==
    \/ calls[1][4] # Success
    \/ env.ncch[overlay_ncch].icon.size < SizeofSMDH

\* the title of the last ReadTitle is the converted prefix of the short-title buffer
TitleIsPrefix ==
    LET p == TitlePrefix(env.ncch[overlay_ncch].icon.short_title)
    IN  /\ Len(env.ncch[overlay_ncch].icon.short_title) = ShortTitleLen
        /\ out = <<UTF16ToUTF8(p)>>
        /\ (\A i \in 1..Len(p) : p[i] < 128) => out = <<p>>
        /\ Len(out[1]) >= Len(p)

\* C14 as stated: ReadTitle returns the format error whenever the icon section is
\* absent or smaller than the icon layout, and otherwise success with the title made
\* of the code units of the short-title buffer in front of its first null.
C14_TitleOrFormatError ==
    lastOp = "ReadTitle"
        => /\ IconAbsentOrSmall => (result = ErrorInvalidFormat /\ out = <<>>)
           /\ ~IconAbsentOrSmall => (result = Success /\ TitleIsPrefix)

\* C14 amended: ReadTitle returns the format error whenever the icon section is
\* absent, smaller than the icon layout or not valid icon metadata (its magic is
\* wrong), and otherwise success with the title made of the code units of the
\* short-title buffer in front of its first null (the whole buffer without a null),
\* converted, and nothing of what follows the null.
C14_TitleOrFormatErrorValid ==
    lastOp = "ReadTitle"
        => /\ Len(calls) = 1 /\ calls[1][1] = "LoadSectionExeFS" /\ calls[1][3] = "icon"
           /\ calls[1][2] = overlay_ncch
           /\ result \in {Success, ErrorInvalidFormat}
           /\ (IconAbsentOrSmall \/ ~env.ncch[overlay_ncch].icon.magic_ok)
                => (result = ErrorInvalidFormat /\ out = <<>>)
           /\ ~(IconAbsentOrSmall \/ ~env.ncch[overlay_ncch].icon.magic_ok)
                => (result = Success /\ TitleIsPrefix)

\* the buffer "AB\0XX" gave the title "AB"
C14_Witness ==
    /\ lastOp = "ReadTitle"
    /\ result = Success
    /\ SubSeq(env.ncch[overlay_ncch].icon.short_title, 1, 5) = <<65, 66, 0, 88, 88>>
    /\ out = << <<65, 66>> >>

\* a buffer without a null gave a title of all its code units
C14_WitnessNoNull ==
    /\ lastOp = "ReadTitle"
    /\ result = Success
    /\ Len(out[1]) = ShortTitleLen

\* an icon one byte short of the layout, and an absent icon, gave the format error
C14_WitnessSmall ==
    /\ lastOp = "ReadTitle"
    /\ result = ErrorInvalidFormat
    /\ calls[1][4] = Success
    /\ env.ncch[overlay_ncch].icon.size = SizeofSMDH - 1
    /\ env.ncch[overlay_ncch].icon.magic_ok

----------------------------------------------------------------------------
(* Claims about the set-up and the run of the process *)

\* the position of the only call to fn in the calls of the last operation (0 if the
\* number of calls to fn is not one)
OnlyAt(fn) == IF Count(calls, fn) = 1 THEN FirstAt(calls, fn, 1) ELSE 0

\* the calls the region resolver and the self-archive registration make
AfterBuildCalls ==
    {"RegisterSelfNCCH", "LoadSectionExeFS", "GetSystemTitleRegion", "SetPreferredRegionCodes"}

\* C15: in every successful image build the process is run exactly once and last:
\* process creation, the resource limit of the header's category, the header's ideal
\* processor, the one capability call and the filesystem registration come before
\* the run, in this order, and the run gets the priority and the stack size of the
\* overlay's header; within Load only the self-archive registration and the region
\* resolver follow the run.
C15_RunOnceAndLast ==
    ImageBuilt
        => LET caps == OverlayHeader.arm11_system_local_caps
               run == OnlyAt("Run")
           IN  /\ run > 0
               /\ 0 < OnlyAt("CreateProcess")
               /\ OnlyAt("CreateProcess") < OnlyAt("GetForCategory")
               /\ OnlyAt("GetForCategory") < OnlyAt("ideal_processor")
               /\ OnlyAt("ideal_processor") < OnlyAt("ParseKernelCaps")
               /\ calls[OnlyAt("ideal_processor")][2] = caps.ideal_processor
               /\ OnlyAt("ParseKernelCaps") < OnlyAt("Register")
               /\ OnlyAt("Register") < run
               /\ calls[run] = <<"Run", caps.priority, OverlayHeader.codeset_info.stack_size>>
               /\ calls[OnlyAt("GetForCategory")][2] = caps.resource_limit_category
               /\ calls[OnlyAt("ParseKernelCaps")][2]
                    = [i \in 1..NUM_DESCRIPTORS |-> OverlayHeader.arm11_kernel_caps.descriptors[i]]
               /\ calls[OnlyAt("ParseKernelCaps")][3] = NUM_DESCRIPTORS
               /\ calls[OnlyAt("Register")][2] = process.process_id
               /\ calls[OnlyAt("Register")][3] = process.codeset.program_id
               /\ calls[OnlyAt("Register")][4] = FilePath
               /\ process.ideal_processor = caps.ideal_processor
               /\ process.resource_limit = <<"ResourceLimit", caps.resource_limit_category>>
               /\ process.priority = caps.priority
               /\ process.stack_size = OverlayHeader.codeset_info.stack_size
               /\ lastOp = "LoadExec" => run = Len(calls)
               /\ \A i \in (run + 1)..Len(calls) : calls[i][1] \in AfterBuildCalls

\* a build ran a process with the update container's priority and stack size, which
\* differ from the base container's
C15_Witness ==
    /\ ImageBuilt
    /\ overlay_ncch = Update
    /\ Count(calls, "Run") = 1
    /\ calls[OnlyAt("Run")][2] = env.ncch[Update].exheader.arm11_system_local_caps.priority
    /\ env.ncch[Update].exheader.arm11_system_local_caps.priority
            # env.ncch[Base].exheader.arm11_system_local_caps.priority
    /\ env.ncch[Update].exheader.codeset_info.stack_size
            # env.ncch[Base].exheader.codeset_info.stack_size

\* LoadExec invoked on its own after Load ran a second process, last
C15_WitnessExec ==
    /\ ImageBuilt
    /\ lastOp = "LoadExec"
    /\ calls[Len(calls)][1] = "Run"
    /\ totals.runs = 2

----------------------------------------------------------------------------
(* Claims about the loader's own state and the containers' loads *)

\* the number of times Load reached its write of the loaded flag: every Load that
\* gets past the base container's load records telemetry once and then sets the flag
FlagWrites == totals.telemetry

\* C16: the loaded flag and the overlay selection change only in a step of Load, and
\* each at most once (the flag never goes back to false, the selection never goes
\* back to the base container, and Load reaches its write of the flag at most once);
\* no other operation changes either of them, and none makes the selected container
\* stop being loaded, DumpUpdateRomFS with its re-opening of the update container
\* included.
C16_SingleWriter ==
    [][/\ lastOp' # "Load"
            => /\ is_loaded' = is_loaded
               /\ overlay_ncch' = overlay_ncch
       /\ (is_loaded' # is_loaded \/ overlay_ncch' # overlay_ncch)
            => /\ lastOp' = "Load"
               /\ ~is_loaded /\ is_loaded'
               /\ overlay_ncch = Base
               /\ Count(calls', "AddField") = 1
       /\ is_loaded => (is_loaded' /\ overlay_ncch' = overlay_ncch)
       /\ ~is_loaded => overlay_ncch = Base
       /\ (is_loaded /\ ncch_state[overlay_ncch] = "loaded")
            => ncch_state'[overlay_ncch'] = "loaded"
       /\ is_loaded' => ncch_state'[overlay_ncch'] = "loaded"
       /\ FlagWrites' <= 1]_vars

\* DumpUpdateRomFS re-opened the update container that is the overlay of a loaded
\* loader, and the container is still loaded
C16_Witness ==
    /\ lastOp = "DumpUpdateRomFS"
    /\ is_loaded
    /\ overlay_ncch = Update
    /\ ncch_state[Update] = "loaded"
    /\ Count(calls, "OpenFile") = 1

\* LoadExec ran on a loader whose Load had selected the update container
C16_WitnessExec ==
    /\ lastOp = "LoadExec"
    /\ result = Success
    /\ is_loaded
    /\ overlay_ncch = Update
    /\ FlagWrites = 1

\* the invocations of a container's load in a log, as <<"Load", container, the
\* container's state before, the answer>>
LoadInvocations(log) == CallsTo(log, "Load")

\* C17 as stated: the loader never invokes load on a container that is already
\* loaded.
C17_NeverLoadsTwice ==
    \A i \in 1..Len(LoadInvocations(calls)) : LoadInvocations(calls)[i][3] # "loaded"

\* C17 amended: a container becomes loaded at most once and stays loaded; the mode
\* queries and Load invoke load on the base container exactly when the loaded flag
\* is not set, whether or not the base container is loaded already, such a Load
\* goes on to invoke load on the update container whether or not an earlier
\* DumpUpdateRomFS loaded it, and IsExecutable invokes load on the overlay on every
\* call; an invocation on a loaded container answers success and changes nothing;
\* once the loaded flag is set only IsExecutable invokes load.
C17_LoadsOnceInvokesAgain ==
    [][LET loads == LoadInvocations(calls')
       IN  /\ \A c \in Containers : ncch_state[c] = "loaded" => ncch_state'[c] = "loaded"
           /\ \A i \in 1..Len(loads) :
                /\ loads[i][3] = "loaded" => loads[i][4] = Success
                /\ loads[i][4] = Success <=> ncch_state'[loads[i][2]] = "loaded"
           /\ (is_loaded /\ loads # <<>>)
                => /\ lastOp' = "IsExecutable"
                   /\ loads = << <<"Load", overlay_ncch, "loaded", Success>> >>
           /\ lastOp' \in {"LoadKernelSystemMode", "LoadKernelN3dsMode"}
                => loads = (IF is_loaded THEN <<>>
                            ELSE << <<"Load", Base, ncch_state[Base], result'>> >>)
           /\ (lastOp' = "Load" /\ ~is_loaded)
                => /\ loads[1][2] = Base /\ loads[1][3] = ncch_state[Base]
                   /\ Len(loads) \in {1, 2}
                   /\ Len(loads) = 2 <=> loads[1][4] = Success
                   /\ Len(loads) = 2
                        => /\ loads[2][2] = Update
                           /\ loads[2][3] = (IF ncch_state[Update] = "loaded"
                                             THEN "loaded" ELSE "opened")
           /\ lastOp' = "IsExecutable"
                => loads = << <<"Load", overlay_ncch, ncch_state[overlay_ncch], result'>> >>
           /\ lastOp' \notin {"Load", "LoadKernelSystemMode", "LoadKernelN3dsMode",
                              "IsExecutable"}
                => loads = <<>>]_vars

\* Load invoked load on the base container that a mode query had loaded before
C17_Witness ==
    /\ lastOp = "Load"
    /\ result = Success
    /\ calls[1] = <<"Load", Base, "loaded", Success>>

\* IsExecutable invoked load on the update container that Load had loaded
C17_WitnessExecutable ==
    /\ lastOp = "IsExecutable"
    /\ is_loaded
    /\ calls = << <<"Load", Update, "loaded", Success>> >>

----------------------------------------------------------------------------
(* Claims about the segments and the backing buffer *)

\* a segment's range [offset, offset + size) lies inside a buffer
InsideBuffer(seg, buffer) == LeqBytes(SegmentEnd(seg), BufferSize(buffer))

\* C18 as stated: in every process image handed to process creation the three
\* segments lie inside the backing buffer, whose length is the length of the
\* executable section plus the padded bss size: offset + size <= length for each.
C18_SegmentsInsideBuffer ==
    ImageBuilt
        => LET cs == process.codeset
               buffer == cs.memory.buffer
           IN  /\ BufferSize(buffer)
                    = AddSize(Bytes(0, Len(OverlayCode)), PaddedBss(OverlayHeader))
               /\ InsideBuffer(cs.CodeSegment, buffer)
               /\ InsideBuffer(cs.RODataSegment, buffer)
               /\ InsideBuffer(cs.DataSegment, buffer)

\* an image was built over a section of 3 bytes with one page each of code and
\* read-only data and a bss of 1 byte: the buffer has 4096 + 3 bytes and the
\* read-only data segment ends at 8192
C18_ImageReachesPastBuffer ==
    /\ ImageBuilt
    /\ OverlayHeader.codeset_info.text.num_max_pages = 1
    /\ OverlayHeader.codeset_info.ro.num_max_pages = 1
    /\ OverlayHeader.codeset_info.bss_size = Bytes(0, 1)
    /\ Len(OverlayCode) = 3
    /\ BufferSize(process.codeset.memory.buffer) = Bytes(1, 3)
    /\ SegmentEnd(process.codeset.RODataSegment) = Bytes(2, 0)

----------------------------------------------------------------------------
(* Claims about a Load that fails *)

\* a log past the base container's load: Load records telemetry right after it
PastBaseLoad(log) == Count(log, "AddField") = 1

\* C19: a Load that returns an error has run no process, made no self-archive
\* registration and not set the preferred regions, and has created no process: the
\* self-archive registration and the region resolver come only after the run of a
\* build that succeeded, and a failure of the executable-section read, of the
\* program-id read, of the legacy-payload check or of the patch ends the build before
\* process creation; after a failure past the base container's load the loaded flag
\* is set, and a Load on a loader whose flag is set is rejected without any call.
C19_FailedLoadLeavesNothing ==
    [][lastOp' = "Load"
        => /\ result' # Success
                => /\ Count(calls', "Run") = 0
                   /\ Count(calls', "CreateProcess") = 0
                   /\ Count(calls', "Register") = 0
                   /\ Count(calls', "RegisterSelfNCCH") = 0
                   /\ Count(calls', "GetSystemTitleRegion") = 0
                   /\ Count(calls', "SetPreferredRegionCodes") = 0
                   /\ preferred_regions' = preferred_regions
                   /\ process' = process
                   /\ totals'.runs = totals.runs
                   /\ totals'.self_ncch = totals.self_ncch
                   /\ totals'.cfg_set = totals.cfg_set
                   /\ PastBaseLoad(calls') => is_loaded'
                   /\ (~is_loaded /\ PastBaseLoad(calls'))
                        => LET c == env.ncch[overlay_ncch']
                           IN  result' =
                                 (IF c.code_res # Success \/ env.program_id_res # Success
                                  THEN Error
                                  ELSE IF HasLegacyTrailer(c.code) THEN ErrorGbaTitle
                                  ELSE c.patch_res)
           /\ (Count(calls', "RegisterSelfNCCH") > 0
               \/ Count(calls', "SetPreferredRegionCodes") > 0
               \/ Count(calls', "GetSystemTitleRegion") > 0)
                => /\ result' = Success
                   /\ Count(calls', "Run") = 1
                   /\ Count(calls', "RegisterSelfNCCH") = 1
                   /\ FirstAt(calls', "Run", 1) + 1 = FirstAt(calls', "RegisterSelfNCCH", 1)
                   /\ \A i \in 1..Len(calls') :
                        calls'[i][1] \in {"SetPreferredRegionCodes", "GetSystemTitleRegion"}
                            => i > FirstAt(calls', "RegisterSelfNCCH", 1)
           /\ is_loaded => (result' = ErrorAlreadyLoaded /\ calls' = <<>>)]_vars

\* a Load failed at the patch, past the base container's load, and left the flag set
C19_Witness ==
    /\ lastOp = "Load"
    /\ result = ErrorMemoryAllocationFailed
    /\ is_loaded
    /\ Count(calls, "ApplyCodePatch") = 1
    /\ process = NoProcess
    /\ preferred_regions = NotSet

\* a Load failed at the legacy-payload check
C19_WitnessLegacy ==
    /\ lastOp = "Load"
    /\ result = ErrorGbaTitle
    /\ is_loaded
    /\ totals.runs = 0

\* a Load on a loader whose earlier Load had failed at the program-id read was rejected
C19_WitnessRejected ==
    /\ lastOp = "Load"
    /\ result = ErrorAlreadyLoaded
    /\ env.program_id_res # Success
    /\ totals.runs = 0 /\ totals.codesets = 0

====
